---- MODULE Spec2Model ----
(***************************************************************************)
(* Custom transfer adapter of git-lfs (transfer/custom.go): one adapter,   *)
(* the external process of one worker, the line protocol on its pipes and  *)
(* the per-transfer loop of DoTransfer.                                    *)
(***************************************************************************)
EXTENDS Integers, Sequences, FiniteSets, TLC

\* ---------------------------------------------------------------- bounds
MaxRequested == 4      \* largest worker count the scheduler asks Begin for
MaxPipe == 2           \* lines the process may have pending on its stdout
MaxTransfers == 2      \* DoTransfer calls on one worker

\* ------------------------------------------------------------- constants
DefaultOriginalConcurrency == 3   \* newCustomAdapter's initial originalConcurrency

Directions == {"Upload", "Download"}
Oids == {"a", "b"}      \* oids the process may name
ReqOids == {"a"}        \* oids of the objects transferred
Sizes == {10}

\* ------------------------------------------------- JSON lines on the pipe
\* A field of a JSON object: absent, present with a value of the Go field's
\* type ("val"), or present with a value of another JSON type ("bad").
AbsentS == [t |-> "absent", v |-> ""]
BadS == [t |-> "bad", v |-> ""]
Str(s) == [t |-> "val", v |-> s]
AbsentN == [t |-> "absent", v |-> 0]
BadN == [t |-> "bad", v |-> 0]
Num(n) == [t |-> "val", v |-> n]

\* One line of process output: js is FALSE for text that is no JSON object.
Line(js, oid, sofar, since, path, err) ==
    [js |-> js, oid |-> oid, sofar |-> sofar, since |-> since,
     path |-> path, err |-> err]

Garbage == Line(FALSE, AbsentS, AbsentN, AbsentN, AbsentS, AbsentS)
EmptyObj == Line(TRUE, AbsentS, AbsentN, AbsentN, AbsentS, AbsentS)
InitErr == Line(TRUE, AbsentS, AbsentN, AbsentN, AbsentS, Str("unsupported"))
InitErrString == Line(TRUE, AbsentS, AbsentN, AbsentN, AbsentS, BadS)
Prog(o, n, d) == Line(TRUE, Str(o), Num(n), Num(d), AbsentS, AbsentS)
Comp(o, e) == Line(TRUE, Str(o), AbsentN, AbsentN, AbsentS, e)
OnlyComp(o) == Line(TRUE, Str(o), BadN, AbsentN, AbsentS, AbsentS)
OnlyProg(o) == Line(TRUE, Str(o), Num(1), Num(1), BadS, AbsentS)

\* The lines the external process is let to write.
Lines ==
    {Garbage, EmptyObj, InitErr, InitErrString,
     Prog("a", 0, 0), Prog("a", 1, 1), Prog("b", 1, 1),
     Comp("a", AbsentS), Comp("a", Str("failed")), Comp("b", AbsentS),
     OnlyComp("a"), OnlyProg("a")}

\* ------------------------------------------- response records (Go structs)
ZeroInit == [err |-> "nil"]
ZeroProgress == [oid |-> "", sofar |-> 0, since |-> 0]
ZeroTransfer == [oid |-> "", path |-> "", err |-> "nil"]

Take(f, old) == IF f.t = "val" THEN f.v ELSE old

\* json.Unmarshal(line, resp) for resp of each response type: a syntax error
\* leaves resp alone; otherwise every well-typed known field is stored, other
\* keys are ignored, absent keys keep resp's value, and a known field of the
\* wrong JSON type makes the call fail.
UnmarshalInit(line, resp) ==
    IF ~line.js THEN [ok |-> FALSE, val |-> resp]
    ELSE [ok |-> line.err.t # "bad",
          val |-> [err |-> Take(line.err, resp.err)]]

UnmarshalProgress(line, resp) ==
    IF ~line.js THEN [ok |-> FALSE, val |-> resp]
    ELSE [ok |-> line.oid.t # "bad" /\ line.sofar.t # "bad" /\ line.since.t # "bad",
          val |-> [oid |-> Take(line.oid, resp.oid),
                   sofar |-> Take(line.sofar, resp.sofar),
                   since |-> Take(line.since, resp.since)]]

UnmarshalTransfer(line, resp) ==
    IF ~line.js THEN [ok |-> FALSE, val |-> resp]
    ELSE [ok |-> line.oid.t # "bad" /\ line.path.t # "bad" /\ line.err.t # "bad",
          val |-> [oid |-> Take(line.oid, resp.oid),
                   path |-> Take(line.path, resp.path),
                   err |-> Take(line.err, resp.err)]]

Unmarshal(type, line, resp) ==
    CASE type = "*customAdapterInitResponse" -> UnmarshalInit(line, resp)
      [] type = "*customAdapterProgressResponse" -> UnmarshalProgress(line, resp)
      [] type = "*customAdapterTransferResponse" -> UnmarshalTransfer(line, resp)

\* ------------------------------------------------- worker process context
NoCtx == [stdin |-> FALSE, stdout |-> FALSE, proc |-> "none"]
NewCtx == [stdin |-> TRUE, stdout |-> TRUE, proc |-> "running"]

\* The process is alive: "deaf" is alive with its own stdin closed.
Running(p) == p \in {"running", "deaf"}

\* ctx.stdin.Write: fails on a closed handle or when nobody reads the pipe.
WriteOK(c) == c.stdin /\ c.proc = "running"

\* sendMessage: marshal, append the newline, write to the process's stdin.
\* The input log grows only when the write succeeds.
\* A sendMessage whose write goes out twice.
SendTwice(c, log, req) ==
    IF WriteOK(c) THEN [err |-> "none", log |-> Append(Append(log, req), req)]
    ELSE [err |-> "io", log |-> log]

SendMessage(c, log, req) ==
    IF WriteOK(c) THEN [err |-> "none", log |-> Append(log, req)]
    ELSE [err |-> "io", log |-> log]

\* A readResponse that keeps the last candidate that unmarshals, not the first.
RECURSIVE LastMatch(_, _, _, _)
LastMatch(line, types, resps, i) ==
    IF i > Len(types) THEN [idx |-> 0, err |-> "no_match", resps |-> resps]
    ELSE LET u == Unmarshal(types[i], line, resps[i])
             stored == [resps EXCEPT ![i] = u.val]
             later == LastMatch(line, types, stored, i + 1)
         IN IF later.err = "none" THEN later
            ELSE IF u.ok THEN [idx |-> i - 1, err |-> "none", resps |-> stored]
            ELSE later

\* The loop of readResponse over the candidates, from candidate i (1-based
\* here, the index returned is Go's 0-based one): the first candidate that
\* unmarshals without error wins; candidates tried before it keep what a
\* failed Unmarshal stored in them.
RECURSIVE FirstMatch(_, _, _, _)
FirstMatch(line, types, resps, i) ==
    IF i > Len(types) THEN [idx |-> 0, err |-> "no_match", resps |-> resps]
    ELSE LET u == Unmarshal(types[i], line, resps[i])
             stored == [resps EXCEPT ![i] = u.val]
         IN IF u.ok THEN [idx |-> i - 1, err |-> "none", resps |-> stored]
            ELSE FirstMatch(line, types, stored, i + 1)

\* A read on the buffered stdout would not block: a line is pending, or the
\* stream has ended (process gone) or the handle is closed.
CanRead(c, q) == q # <<>> \/ ~Running(c.proc) \/ ~c.stdout

\* readResponse: one ReadString('\n'), then the candidates in order. q is
\* the pipe and line the text of its first pending line.
ReadResponse(c, q, line, types, resps) ==
    IF ~c.stdout \/ q = <<>>
    THEN [idx |-> 0, err |-> "io", resps |-> resps, rest |-> q, line |-> Garbage]
    ELSE LET m == FirstMatch(line, types, resps, 1)
         IN [idx |-> m.idx, err |-> m.err, resps |-> m.resps,
             rest |-> Tail(q), line |-> line]

\* An abort that forgets to close the read handle.
AbortKeepsStdout(c) ==
    [stdin |-> FALSE, stdout |-> c.stdout,
     proc |-> IF Running(c.proc) THEN "killed" ELSE c.proc]

\* An abort that closes the handles and leaves the process alive.
AbortWithoutKill(c) == [stdin |-> FALSE, stdout |-> FALSE, proc |-> c.proc]

\* abortWorkerProcess: close both handles, kill the process (a kill of a
\* process that already exited changes nothing).
AbortWorkerProcess(c) ==
    [stdin |-> FALSE, stdout |-> FALSE,
     proc |-> IF Running(c.proc) THEN "killed" ELSE c.proc]

\* An unrecovered panic ends the program: its ends of the pipes are closed
\* with it, and the external process is left as it was.
Crashed(c) == [c EXCEPT !.stdin = FALSE, !.stdout = FALSE]

\* Lines still unread when the read handle is closed are lost.
Unread(c, q) == IF c.stdout THEN q ELSE <<>>

\* A Begin that forgets the downgrade.
UseConcurrencyAsRequested(maxConcurrency, conc) == maxConcurrency

\* Begin's downgrade of the requested concurrency.
UseConcurrency(maxConcurrency, conc) ==
    IF ~conc THEN 1 ELSE maxConcurrency

\* ------------------------------------------------------------ messages
\* An InitRequest that reports the worker count in effect.
InitRequestEffective(dir, conc, n) ==
    [type |-> "init",
     operation |-> IF dir = "Download" THEN "download" ELSE "upload",
     concurrent |-> conc, concurrentTransfers |-> UseConcurrency(n, conc)]

InitRequest(dir, conc, n) ==
    [type |-> "init",
     operation |-> IF dir = "Download" THEN "download" ELSE "upload",
     concurrent |-> conc, concurrentTransfers |-> n]

DownloadRequest(t) ==
    [type |-> "download", oid |-> t.oid, size |-> t.size, action |-> "download"]

\* An upload adapter that builds the request of the other direction.
UploadAsDownload(t) ==
    [type |-> "download", oid |-> t.oid, size |-> t.size, action |-> "download"]

UploadRequest(t) ==
    [type |-> "upload", oid |-> t.oid, size |-> t.size,
     path |-> <<"objects", t.oid>>, action |-> "upload"]

TerminateRequest == [type |-> "terminate", complete |-> TRUE]

\* The transfer objects the scheduler hands to DoTransfer: rel tells whether
\* the action of the adapter's direction is resolved on the object.
Transfers == [oid : ReqOids, size : Sizes, rel : BOOLEAN]

\* ------------------------------------------------------------ DoTransfer
\* A DoTransfer that does not look for the object's action.
PrecheckIgnoresRel(arg, t) ==
    IF arg = "nil" THEN "not_initialized"
    ELSE IF arg = "wrong" THEN "wrong_type"
    ELSE "none"

\* DoTransfer's checks before it builds the request: the context is there,
\* it is a worker context, and the object has the action of the direction.
Precheck(arg, t) ==
    IF arg = "nil" THEN "not_initialized"
    ELSE IF arg = "wrong" THEN "wrong_type"
    ELSE IF ~t.rel THEN "not_found"
    ELSE "none"

PossRespTypes ==
    <<"*customAdapterProgressResponse", "*customAdapterTransferResponse">>

\* x.(T) on an interface value of dynamic type dyn: holds only for dyn = T,
\* and panics otherwise.
TypeAssertOK(dyn, T) == dyn = T

NoLocals ==
    [oid |-> "", size |-> 0, hasCb |-> FALSE, hasAuth |-> FALSE,
     authCalled |-> FALSE, resps |-> <<ZeroProgress, ZeroTransfer>>]

\* Go's possResps[0] and possResps[1] are resps[1] and resps[2] here. Both
\* cases of the switch read possResps[0], and both assert a struct type on
\* it while it holds a pointer to customAdapterProgressResponse.
\* What one turn of DoTransfer's loop does with the outcome r of
\* readResponse, and the upload verification that follows the loop:
\* ret is "none" while the loop goes on, "panic" for a run-time panic, and
\* the returned error (or "ok") otherwise; slot is the index of possResps
\* the turn examined; cb lists the progress callbacks
\* made, auth and verify count the calls of authOkFunc and api.VerifyUpload.
Turn(x, r, dir, verifyOK) ==
    LET quiet == [ret |-> "none", cb |-> <<>>, auth |-> 0, verify |-> 0,
                  authCalled |-> x.authCalled, slot |-> 0]
        fire(w) == w /\ x.hasAuth /\ ~x.authCalled
    IN
    IF r.err # "none" THEN [quiet EXCEPT !.ret = r.err]
    ELSE IF r.idx = 0 THEN
        IF ~TypeAssertOK(PossRespTypes[1], "customAdapterProgressResponse")
        THEN [quiet EXCEPT !.ret = "panic"]
        ELSE LET prog == r.resps[1] IN
             IF prog.oid # x.oid THEN [quiet EXCEPT !.ret = "oid_mismatch"]
             ELSE [ret |-> "none",
                   cb |-> IF x.hasCb THEN <<<<x.size, prog.sofar, prog.since>>>>
                          ELSE <<>>,
                   auth |-> IF fire(prog.sofar > 0) THEN 1 ELSE 0,
                   verify |-> 0,
                   authCalled |-> x.authCalled \/ fire(prog.sofar > 0),
                   slot |-> 0]
    ELSE
        IF ~TypeAssertOK(PossRespTypes[1], "customAdapterTransferResponse")
        THEN [quiet EXCEPT !.ret = "panic"]
        ELSE LET comp == r.resps[1] IN
             IF comp.oid # x.oid THEN [quiet EXCEPT !.ret = "oid_mismatch"]
             ELSE IF comp.err # "nil" THEN [quiet EXCEPT !.ret = "transfer_error"]
             ELSE [ret |-> IF dir = "Upload" /\ ~verifyOK THEN "verify_failed"
                           ELSE "ok",
                   cb |-> <<>>,
                   auth |-> IF fire(TRUE) THEN 1 ELSE 0,
                   verify |-> IF dir = "Upload" THEN 1 ELSE 0,
                   authCalled |-> x.authCalled \/ fire(TRUE),
                   slot |-> 0]

\* ------------------------------------------------- adapter configuration
\* The git configuration of one adapter name: the values of its path, args,
\* concurrent and direction keys, Unset for a key that is not there.
Unset == "<unset>"
Names == {"agent", "other"}
Paths == {"/bin/a", "/bin/b"}
DirectionTexts == {Unset, "", "download", "Upload", "BOTH", "sideways"}
Entries ==
    [path : {Unset}, args : {Unset}, concurrent : {Unset}, direction : {Unset}]
    \cup [path : Paths, args : {Unset, "--flag"},
          concurrent : {Unset, "true", "false"}, direction : DirectionTexts]
Configs == [Names -> Entries]

\* config.Config.GitConfig: the value of the key, "" when it is not set.
GitConfig(v) == IF v = Unset THEN "" ELSE v

\* config.Config.GitConfigBool: the value of the key as a boolean, the
\* default when it is not set.
GitConfigBool(v, default) == IF v = Unset THEN default ELSE v = "true"

\* strings.ToLower on the direction texts.
ToLower(str) ==
    CASE str = "Upload" -> "upload"
      [] str = "BOTH" -> "both"
      [] OTHER -> str

\* A direction that is compared as it was written.
DirectionAsWritten(v) == IF GitConfig(v) = "" THEN "both" ELSE GitConfig(v)

\* The direction ConfigureCustomAdapters works with for a configured value.
ResolveDirection(v) ==
    IF GitConfig(v) = "" THEN "both" ELSE ToLower(GitConfig(v))

\* newCustomAdapter
NewCustomAdapter(name, dir, path, args, conc) ==
    [name |-> name, dir |-> dir, path |-> path, args |-> args,
     concurrent |-> conc, originalConcurrency |-> DefaultOriginalConcurrency]

\* The factory ConfigureCustomAdapters makes for the entry e: what it has
\* captured, to be called with a name and a direction.
Factory(name, e) ==
    [path |-> e.path, args |-> GitConfig(e.args),
     concurrent |-> GitConfigBool(e.concurrent, TRUE)]

\* RegisterNewTransferAdapterFunc: the factory is stored under name and
\* direction.
Register(reg, name, dir, f) ==
    {r \in reg : ~(r.name = name /\ r.dir = dir)}
        \cup {[name |-> name, dir |-> dir, factory |-> f]}

\* The body of ConfigureCustomAdapters' loop for the keys of one name: a
\* name with a path key is registered under the directions its direction
\* key names.
ConfigureName(reg, name, e) ==
    IF e.path = Unset THEN reg
    ELSE LET d == ResolveDirection(e.direction)
             f == Factory(name, e)
             down == IF d = "download" \/ d = "both"
                     THEN Register(reg, name, "Download", f) ELSE reg
         IN IF d = "upload" \/ d = "both"
            THEN Register(down, name, "Upload", f) ELSE down

\* ConfigureCustomAdapters: every name of the configuration, in any order
\* (the names do not touch each other's registrations).
RECURSIVE ConfigureAll(_, _, _)
ConfigureAll(reg, cfg, names) ==
    IF names = {} THEN reg
    ELSE LET n == CHOOSE x \in names : TRUE
         IN ConfigureAll(ConfigureName(reg, n, cfg[n]), cfg, names \ {n})

NoAdapter ==
    [name |-> "", dir |-> "", path |-> "", args |-> "", concurrent |-> FALSE,
     originalConcurrency |-> 0]

\* ------------------------------------------------------------------ state
VARIABLES
    direction,            \* adapterBase.direction
    concurrent,           \* customAdapter.concurrent
    originalConcurrency,  \* customAdapter.originalConcurrency
    requested,            \* the count the scheduler passed to Begin
    poolConcurrency,      \* the count Begin passed to adapterBase.Begin
    pc,                   \* where the scheduler's worker stands
    ctx,                  \* the customAdapterWorkerContext: handles and process
    held,                 \* what WorkerStarting returned: "none", "nil", "ctx"
    startErr,             \* the error WorkerStarting returned
    outq,                 \* lines pending on the process's stdout: for each,
                          \* how many messages the process had got when it wrote it
    inlog,                \* messages written to the process's stdin
    xf,                   \* DoTransfer's locals
    consumed,             \* lines the running DoTransfer call has read
    cbLog,                \* progress callbacks of the running DoTransfer call
    authCalls,            \* authOkFunc calls of that call
    verifyCalls,          \* api.VerifyUpload calls of that call
    result,               \* what the last DoTransfer call returned
    nXfers,               \* DoTransfer calls made
    call,                 \* the ctx argument and the object of the last DoTransfer call
    lastRead,             \* outcome of the readResponse of the last handler, if any
    endPath,              \* the path WorkerEnding took
    gitconfig,            \* the customtransfer keys of the git configuration
    registry,             \* the factories registered per name and direction
    built,                \* the adapter the last factory call returned
    cpc                   \* where the configuration stands

vars ==
    <<direction, concurrent, originalConcurrency, requested, poolConcurrency,
      pc, ctx, held, startErr, outq, inlog, xf, consumed, cbLog,
      authCalls, verifyCalls, result, nXfers, call, lastRead, endPath,
      gitconfig, registry, built, cpc>>

adapterVars == <<direction, concurrent, originalConcurrency, requested, poolConcurrency>>
startVars == <<held, startErr>>
configVars == <<gitconfig, registry, built, cpc>>
callVars == <<xf, consumed, cbLog, authCalls, verifyCalls, result, nXfers, call>>

NoCall == [arg |-> "none", rel |-> FALSE]

NoRead == [line |-> Garbage, idx |-> 0, err |-> "none", took |-> 0, n |-> 0,
           types |-> <<>>, tag |-> 0, slot |-> 0]

\* What a readResponse call r on pipe q with candidates types leaves behind;
\* tag is the tag of the line it took, and slot the index of the candidate
\* the caller went on to examine.
ReadRecord(r, q, types, slot) ==
    [line |-> r.line, idx |-> r.idx, err |-> r.err,
     took |-> Len(q) - Len(r.rest), n |-> Len(types), types |-> types,
     tag |-> IF Len(q) > Len(r.rest) THEN Head(q) ELSE 0, slot |-> slot]

\* No configuration is in play.
NoConfig == [n \in Names |->
    [path |-> Unset, args |-> Unset, concurrent |-> Unset, direction |-> Unset]]

\* newCustomAdapter for either direction and either concurrent flag.
Init ==
    /\ gitconfig = NoConfig
    /\ registry = {}
    /\ built = NoAdapter
    /\ cpc = "off"
    /\ direction \in Directions
    /\ concurrent \in BOOLEAN
    /\ originalConcurrency = DefaultOriginalConcurrency
    /\ requested = 0
    /\ poolConcurrency = 0
    /\ pc = "new"
    /\ ctx = NoCtx
    /\ held = "none"
    /\ startErr = "none"
    /\ outq = <<>>
    /\ inlog = <<>>
    /\ xf = NoLocals
    /\ consumed = <<>>
    /\ cbLog = <<>>
    /\ authCalls = 0
    /\ verifyCalls = 0
    /\ result = "none"
    /\ nXfers = 0
    /\ call = NoCall
    /\ lastRead = NoRead
    /\ endPath = "none"

\* Begin(maxConcurrency, cb, completion)
Begin(maxConcurrency) ==
    /\ pc = "new"
    /\ originalConcurrency' = maxConcurrency
    /\ requested' = maxConcurrency
    /\ poolConcurrency' = UseConcurrency(maxConcurrency, concurrent)
    /\ pc' = "begun"
    /\ UNCHANGED <<direction, concurrent, ctx, outq, inlog, lastRead, endPath>>
    /\ UNCHANGED configVars
    /\ UNCHANGED startVars
    /\ UNCHANGED callVars

\* WorkerStarting (the pool starts workers when Begin asked for at least one)
\* up to the write of the InitRequest: the pipes or the start
\* may fail (started = FALSE); early is what the process has done by the
\* time of the write, and a failed write aborts the new context.
WorkerStartingLaunch(started, early) ==
    /\ pc = "begun"
    /\ poolConcurrency >= 1
    /\ IF ~started
       THEN /\ pc' = "idle"
            /\ held' = "nil"
            /\ startErr' = "start_failed"
            /\ UNCHANGED <<ctx, inlog>>
       ELSE LET c == [NewCtx EXCEPT !.proc = early]
                s == SendMessage(c, inlog,
                         InitRequest(direction, concurrent, originalConcurrency))
            IN /\ inlog' = s.log
               /\ IF s.err # "none"
                  THEN /\ ctx' = AbortWorkerProcess(c)
                       /\ pc' = "idle"
                       /\ held' = "nil"
                       /\ startErr' = s.err
                  ELSE /\ ctx' = c
                       /\ pc' = "init_wait"
                       /\ UNCHANGED <<held, startErr>>
    /\ UNCHANGED <<outq, lastRead, endPath>>
    /\ UNCHANGED adapterVars
    /\ UNCHANGED configVars
    /\ UNCHANGED callVars

\* WorkerStarting from the read of the one init response to its return.
WorkerStartingHandshake(line) ==
    /\ pc = "init_wait"
    /\ CanRead(ctx, outq)
    /\ LET types == <<"*customAdapterInitResponse">>
           r == ReadResponse(ctx, outq, line, types, <<ZeroInit>>)
       IN /\ lastRead' = ReadRecord(r, outq, types, 0)
          /\ IF r.err # "none"
             THEN /\ ctx' = AbortWorkerProcess(ctx)
                  /\ held' = "nil"
                  /\ startErr' = r.err
             ELSE /\ held' = "ctx"
                  /\ startErr' = "none"
                  /\ UNCHANGED ctx
          /\ outq' = Unread(ctx', r.rest)
    /\ pc' = "idle"
    /\ UNCHANGED <<inlog, endPath>>
    /\ UNCHANGED adapterVars
    /\ UNCHANGED configVars
    /\ UNCHANGED callVars

\* DoTransfer up to the write of the request. arg is the ctx argument: the
\* value WorkerStarting returned, or a value of another type; hasCb and
\* hasAuth tell whether cb and authOkFunc are given (the scheduler gives both).
DoTransferSend(arg, t, hasCb, hasAuth) ==
    /\ pc = "idle"
    /\ nXfers < MaxTransfers
    /\ arg \in {held, "wrong"}
    /\ nXfers' = nXfers + 1
    /\ call' = [arg |-> arg, rel |-> t.rel]
    /\ consumed' = <<>>
    /\ cbLog' = <<>>
    /\ authCalls' = 0
    /\ verifyCalls' = 0
    /\ IF Precheck(arg, t) # "none"
       THEN /\ result' = Precheck(arg, t)
            /\ UNCHANGED <<pc, inlog, xf>>
       ELSE LET req == IF direction = "Download" THEN DownloadRequest(t)
                       ELSE UploadRequest(t)
                s == SendMessage(ctx, inlog, req)
            IN /\ inlog' = s.log
               /\ IF s.err # "none"
                  THEN /\ result' = s.err
                       /\ UNCHANGED <<pc, xf>>
                  ELSE /\ result' = "none"
                       /\ pc' = "xfer"
                       /\ xf' = [NoLocals EXCEPT !.oid = t.oid, !.size = t.size,
                                    !.hasCb = hasCb, !.hasAuth = hasAuth]
    /\ lastRead' = NoRead
    /\ UNCHANGED <<ctx, outq, endPath>>
    /\ UNCHANGED adapterVars
    /\ UNCHANGED configVars
    /\ UNCHANGED startVars

\* One turn of DoTransfer's loop: readResponse, the switch on its index, the
\* auth call, and after the last turn the upload verification and the return.
DoTransferLoop(line, verifyOK) ==
    /\ pc = "xfer"
    /\ CanRead(ctx, outq)
    /\ LET r == ReadResponse(ctx, outq, line, PossRespTypes, xf.resps)
           o == Turn(xf, r, direction, verifyOK)
       IN /\ ctx' = IF o.ret = "panic" THEN Crashed(ctx) ELSE ctx
          /\ outq' = Unread(ctx', r.rest)
          /\ lastRead' = ReadRecord(r, outq, PossRespTypes, o.slot)
          /\ consumed' = IF r.err = "io" THEN consumed ELSE Append(consumed, r.line)
          /\ xf' = [xf EXCEPT !.resps = r.resps, !.authCalled = o.authCalled]
          /\ cbLog' = cbLog \o o.cb
          /\ authCalls' = authCalls + o.auth
          /\ verifyCalls' = verifyCalls + o.verify
          /\ result' = o.ret
          /\ pc' = CASE o.ret = "none" -> "xfer"
                     [] o.ret = "panic" -> "crashed"
                     [] OTHER -> "idle"
    /\ UNCHANGED <<inlog, nXfers, call, endPath>>
    /\ UNCHANGED adapterVars
    /\ UNCHANGED configVars
    /\ UNCHANGED startVars

\* WorkerEnding up to cmd.Wait: a context that is no worker context returns
\* at once; a failed terminate message aborts; otherwise both handles are
\* closed and Wait begins.
WorkerEndingSend ==
    /\ pc = "idle"
    /\ IF held # "ctx"
       THEN /\ pc' = "ended"
            /\ endPath' = "no_context"
            /\ UNCHANGED <<ctx, inlog>>
       ELSE LET s == SendMessage(ctx, inlog, TerminateRequest)
            IN /\ inlog' = s.log
               /\ IF s.err # "none"
                  THEN /\ ctx' = AbortWorkerProcess(ctx)
                       /\ pc' = "ended"
                       /\ endPath' = "send_failed"
                  ELSE /\ ctx' = [ctx EXCEPT !.stdin = FALSE, !.stdout = FALSE]
                       /\ pc' = "end_wait"
                       /\ UNCHANGED endPath
    /\ lastRead' = NoRead
    /\ outq' = Unread(ctx', outq)
    /\ UNCHANGED adapterVars
    /\ UNCHANGED configVars
    /\ UNCHANGED startVars
    /\ UNCHANGED callVars

\* WorkerEnding from the return of cmd.Wait: an exit status other than 0 is
\* an error, and then the context is aborted.
WorkerEndingWait ==
    /\ pc = "end_wait"
    /\ ~Running(ctx.proc)
    /\ IF ctx.proc # "exited0"
       THEN /\ ctx' = AbortWorkerProcess(ctx)
            /\ endPath' = "wait_failed"
       ELSE /\ endPath' = "graceful"
            /\ UNCHANGED ctx
    /\ pc' = "ended"
    /\ UNCHANGED <<outq, inlog, lastRead>>
    /\ UNCHANGED adapterVars
    /\ UNCHANGED configVars
    /\ UNCHANGED startVars
    /\ UNCHANGED callVars

\* ------------------------------------------------- the external process
\* The process writes one line to its stdout. The adapter sees a line only
\* when it reads it, so the text of the line is drawn at the read.
ProcEmit ==
    /\ Running(ctx.proc)
    /\ ctx.stdout
    /\ pc # "crashed"
    /\ Len(outq) < MaxPipe
    /\ outq' = Append(outq, Len(inlog))
    /\ UNCHANGED <<pc, ctx, inlog, lastRead, endPath>>
    /\ UNCHANGED adapterVars
    /\ UNCHANGED configVars
    /\ UNCHANGED startVars
    /\ UNCHANGED callVars

\* The process closes its own stdin and runs on.
ProcCloseStdin ==
    /\ ctx.proc = "running"
    /\ pc # "crashed"
    /\ ctx' = [ctx EXCEPT !.proc = "deaf"]
    /\ UNCHANGED <<pc, outq, inlog, lastRead, endPath>>
    /\ UNCHANGED adapterVars
    /\ UNCHANGED configVars
    /\ UNCHANGED startVars
    /\ UNCHANGED callVars

\* The process exits with status 0 or another one.
ProcExit(status) ==
    /\ Running(ctx.proc)
    /\ pc # "crashed"
    /\ ctx' = [ctx EXCEPT !.proc = status]
    /\ UNCHANGED <<pc, outq, inlog, lastRead, endPath>>
    /\ UNCHANGED adapterVars
    /\ UNCHANGED configVars
    /\ UNCHANGED startVars
    /\ UNCHANGED callVars

Next ==
    \/ \E n \in 0..MaxRequested : Begin(n)
    \/ \E started \in BOOLEAN, early \in {"running", "deaf", "exited0", "exited1"} :
           WorkerStartingLaunch(started, early)
    \/ \E line \in Lines : WorkerStartingHandshake(line)
    \/ \E arg \in {"nil", "ctx", "wrong"}, t \in Transfers, hasCb, hasAuth \in {TRUE} :
           DoTransferSend(arg, t, hasCb, hasAuth)
    \/ \E line \in Lines, verifyOK \in BOOLEAN : DoTransferLoop(line, verifyOK)
    \/ WorkerEndingSend
    \/ WorkerEndingWait
    \/ ProcEmit
    \/ ProcCloseStdin
    \/ \E status \in {"exited0", "exited1"} : ProcExit(status)

Spec == Init /\ [][Next]_vars

\* ------------------------------------------- the configuration on its own
workerVars ==
    <<direction, concurrent, originalConcurrency, requested, poolConcurrency,
      pc, ctx, held, startErr, outq, inlog, xf, consumed, cbLog,
      authCalls, verifyCalls, result, nXfers, call, lastRead, endPath>>

\* Any configuration of the names, before init() has run; no adapter is in
\* use.
InitConfig ==
    /\ gitconfig \in Configs
    /\ registry = {}
    /\ built = NoAdapter
    /\ cpc = "load"
    /\ direction = "Upload"
    /\ concurrent = TRUE
    /\ originalConcurrency = DefaultOriginalConcurrency
    /\ requested = 0
    /\ poolConcurrency = 0
    /\ pc = "unused"
    /\ ctx = NoCtx
    /\ held = "none"
    /\ startErr = "none"
    /\ outq = <<>>
    /\ inlog = <<>>
    /\ xf = NoLocals
    /\ consumed = <<>>
    /\ cbLog = <<>>
    /\ authCalls = 0
    /\ verifyCalls = 0
    /\ result = "none"
    /\ nXfers = 0
    /\ call = NoCall
    /\ lastRead = NoRead
    /\ endPath = "none"

\* init(): ConfigureCustomAdapters
Configure ==
    /\ cpc = "load"
    /\ registry' = ConfigureAll(registry, gitconfig, Names)
    /\ cpc' = "configured"
    /\ UNCHANGED <<gitconfig, built>>
    /\ UNCHANGED workerVars

\* A registered factory is called with its name and direction.
BuildAdapter(r) ==
    /\ cpc \in {"configured", "built"}
    /\ r \in registry
    /\ built' = NewCustomAdapter(r.name, r.dir, r.factory.path, r.factory.args,
                                 r.factory.concurrent)
    /\ cpc' = "built"
    /\ UNCHANGED <<gitconfig, registry>>
    /\ UNCHANGED workerVars

NextConfig ==
    \/ Configure
    \/ \E r \in registry : BuildAdapter(r)

SpecConfig == InitConfig /\ [][NextConfig]_vars

\* ================================================================ claims
\* The vocabulary of the claims, stated on the text of a line.
Last(q) == q[Len(q)]

\* The line is JSON whose fields fit the Go struct of the candidate type.
Decodable(type, l) ==
    /\ l.js
    /\ type = "*customAdapterInitResponse" => l.err.t # "bad"
    /\ type = "*customAdapterProgressResponse" =>
           l.oid.t # "bad" /\ l.sofar.t # "bad" /\ l.since.t # "bad"
    /\ type = "*customAdapterTransferResponse" =>
           l.oid.t # "bad" /\ l.path.t # "bad" /\ l.err.t # "bad"

\* A ProgressResponse line, and a terminal TransferResponse line.
IsProgress(l) == l.js /\ l.oid.t = "val" /\ l.sofar.t = "val" /\ l.since.t = "val"
IsTerminal(l) ==
    /\ l.js /\ l.oid.t = "val" /\ l.sofar.t = "absent" /\ l.since.t = "absent"
    /\ l.path.t # "bad" /\ l.err.t # "bad"
IsSuccess(l) == IsTerminal(l) /\ l.err.t = "absent"

\* The running call has read a terminal line for its own oid last.
GotTerminal == consumed # <<>> /\ IsTerminal(Last(consumed)) /\ Last(consumed).oid.v = xf.oid
GotSuccess == GotTerminal /\ IsSuccess(Last(consumed))

\* Every line the running call has read is a progress or a success line for
\* its own oid.
CleanTransfer ==
    \A i \in 1..Len(consumed) :
        /\ IsProgress(consumed[i]) \/ IsSuccess(consumed[i])
        /\ consumed[i].oid.v = xf.oid

ProgressLines == SelectSeq(consumed, IsProgress)
ContextAborted == ~ctx.stdin /\ ~ctx.stdout /\ ~Running(ctx.proc)
InitRead == lastRead.types = <<"*customAdapterInitResponse">>

\* C1: an init response that carries an embedded error makes WorkerStarting
\* abort the context, fail, and hand no context to the scheduler.
C1_InitErrorFailsStart ==
    (InitRead /\ lastRead.took = 1 /\ lastRead.line.js /\ lastRead.line.err.t = "val")
        => (held = "nil" /\ startErr # "none" /\ ContextAborted)

\* C2: once the terminal TransferResponse for the request's oid is read,
\* DoTransfer has returned: success without an embedded error (the upload
\* verification may still fail it), failure with one.
C2_TerminalEndsLoop ==
    GotTerminal =>
        /\ pc # "xfer" /\ pc # "crashed"
        /\ IF IsSuccess(Last(consumed)) THEN result \in {"ok", "verify_failed"}
           ELSE result = "transfer_error"

\* C3: a response with another oid than the request's makes DoTransfer return
\* a protocol-violation error, with no verification and no auth call for it.
C3_OidMismatchIsProtocolError ==
    (consumed # <<>> /\ Last(consumed).js /\ Last(consumed).oid.t = "val"
        /\ Last(consumed).oid.v # xf.oid)
        => (result = "oid_mismatch" /\ pc # "crashed" /\ verifyCalls = 0)

\* C4: in a transfer of progress lines and one success line, the progress
\* callback has been called once per progress line read, in order, with the
\* total size and that line's own byte counts.
C4_ProgressCallbackPerMessage ==
    CleanTransfer =>
        cbLog = [i \in 1..Len(ProgressLines) |->
                    <<xf.size, ProgressLines[i].sofar.v, ProgressLines[i].since.v>>]

\* C5: the auth-success callback is called at most once per DoTransfer call,
\* and once a progress line with bytesSoFar > 0 or the success completion has
\* been handled in a clean transfer it has been called exactly once.
C5_AuthExactlyOnce ==
    /\ authCalls <= 1
    /\ (CleanTransfer /\ \E i \in 1..Len(consumed) :
            IsSuccess(consumed[i]) \/ (IsProgress(consumed[i]) /\ consumed[i].sofar.v > 0))
           => authCalls = 1

\* C6: the upload verification is called exactly once after a success
\* completion of an Upload adapter, and never otherwise.
C6_VerifyOnUploadSuccess ==
    /\ (direction = "Upload" /\ CleanTransfer /\ GotSuccess) => verifyCalls = 1
    /\ direction = "Download" => verifyCalls = 0
    /\ ~GotSuccess => verifyCalls = 0

\* C7: Begin hands the pool 1 when concurrent is false and more than one
\* worker was requested, and the requested count when concurrent is true.
C7_EffectiveConcurrency ==
    pc # "new" =>
        /\ (~concurrent /\ requested > 1) => poolConcurrency = 1
        /\ concurrent => poolConcurrency = requested

C7_Witness ==
    pc # "new" /\ ~concurrent /\ requested = MaxRequested /\ poolConcurrency = 1

\* C8: readResponse takes exactly one line off the pipe and returns the index
\* of the first candidate, in list order, that decodes it (index 0 for a line
\* that both Progress and Completion decode); it returns an error when no
\* candidate decodes the line or when the read fails.
C8_FirstMatchingCandidate ==
    lastRead.n > 0 =>
        LET l == lastRead.line
            ty == lastRead.types
        IN /\ lastRead.err = "io" <=> lastRead.took = 0
           /\ lastRead.err # "io" => lastRead.took = 1
           /\ lastRead.err = "none" =>
                 /\ lastRead.idx + 1 \in 1..lastRead.n
                 /\ Decodable(ty[lastRead.idx + 1], l)
                 /\ \A j \in 1..lastRead.idx : ~Decodable(ty[j], l)
           /\ lastRead.err = "no_match" =>
                 \A j \in 1..lastRead.n : ~Decodable(ty[j], l)
           /\ (lastRead.took = 1 /\ \E j \in 1..lastRead.n : Decodable(ty[j], l))
                 => lastRead.err = "none"

C8_Witness ==
    /\ lastRead.types = PossRespTypes
    /\ lastRead.took = 1
    /\ Decodable(PossRespTypes[1], lastRead.line)
    /\ Decodable(PossRespTypes[2], lastRead.line)
    /\ lastRead.err = "none"
    /\ lastRead.idx = 0

\* C9: WorkerEnding on a valid context sends the terminate message, closes
\* both handles and waits; when the send or the wait fails it aborts. When it
\* has returned, both handles are closed and the process has exited or was
\* killed; the result of the last transfer is not touched.
C9_EndingState ==
    /\ pc = "end_wait" =>
          ~ctx.stdin /\ ~ctx.stdout /\ inlog # <<>> /\ Last(inlog) = TerminateRequest
    /\ (pc = "ended" /\ held = "ctx") =>
          /\ ContextAborted
          /\ endPath \in {"graceful", "send_failed", "wait_failed"}
          /\ endPath = "graceful" =>
                ctx.proc = "exited0" /\ Last(inlog) = TerminateRequest
          /\ endPath = "wait_failed" =>
                ctx.proc = "exited1" /\ Last(inlog) = TerminateRequest
          /\ endPath = "send_failed" =>
                \A i \in 1..Len(inlog) : inlog[i] # TerminateRequest

C9_WorkerEndingShutsDown ==
    /\ []C9_EndingState
    /\ [][pc' \in {"end_wait", "ended"} => result' = result]_vars

C9_Witness ==
    pc = "ended" /\ held = "ctx" /\ endPath = "send_failed" /\ ctx.proc = "killed"

\* C10: a DoTransfer that returned a fatal protocol error (no candidate matched
\* the line, an oid mismatch, a failed pipe read or write) has aborted the
\* worker's context.
C10_FatalErrorAbortsContext ==
    (pc = "idle" /\ result \in {"no_match", "oid_mismatch", "io"}) => ContextAborted

\* The last step was a read of DoTransfer's loop that took a line.
JustRead == lastRead.types = PossRespTypes /\ lastRead.took = 1

\* C11: a terminal response with an embedded error fails only that DoTransfer
\* call: the call returns a transfer error and the worker's context stays
\* open for the next call.
C11_TransferErrorLeavesContextOpen ==
    (JustRead /\ GotTerminal /\ ~IsSuccess(Last(consumed)))
        => (pc = "idle" /\ result = "transfer_error" /\ ctx.stdin /\ ctx.stdout)

\* The direction values that mean download, and those that mean upload, in
\* any spelling: a direction that is not set or empty means both.
MeansDownload == {Unset, "", "download", "Download", "DOWNLOAD", "both", "Both", "BOTH"}
MeansUpload == {Unset, "", "upload", "Upload", "UPLOAD", "both", "Both", "BOTH"}
Registered(name, dir) == \E r \in registry : r.name = name /\ r.dir = dir

\* C12: after ConfigureCustomAdapters, a name is registered under Download
\* iff it has a path key and its direction means download or both, under
\* Upload iff its direction means upload or both; the adapter a factory
\* builds has the entry's path, its args (default empty) and its concurrent
\* flag (default true).
C12_RegisteredPerDirection ==
    cpc \in {"configured", "built"} =>
        /\ \A n \in Names :
              /\ Registered(n, "Download") <=>
                    (gitconfig[n].path # Unset /\ gitconfig[n].direction \in MeansDownload)
              /\ Registered(n, "Upload") <=>
                    (gitconfig[n].path # Unset /\ gitconfig[n].direction \in MeansUpload)
        /\ cpc = "built" =>
              LET e == gitconfig[built.name]
              IN /\ Registered(built.name, built.dir)
                 /\ built.path = e.path
                 /\ built.args = (IF e.args = Unset THEN "" ELSE e.args)
                 /\ built.concurrent = (e.concurrent # "false")

C12_Witness ==
    /\ cpc = "built"
    /\ built.name = "agent" /\ built.dir = "Upload"
    /\ gitconfig["agent"].direction = "Upload"
    /\ gitconfig["agent"].concurrent = Unset /\ built.concurrent
    /\ gitconfig["other"].direction = "download"
    /\ gitconfig["other"].path # gitconfig["agent"].path
    /\ ~Registered("other", "Upload")

InitRequestsSent == {i \in 1..Len(inlog) : inlog[i].type = "init"}

\* C13: WorkerStarting returns a context only after the process was started,
\* one InitRequest was written and one response line was read and decoded;
\* when the write, the read or the decoding fails it closes both handles,
\* kills the process and returns no context.
C13_StartHandshake ==
    /\ pc \in {"new", "begun", "init_wait"} => held = "none"
    /\ held = "ctx" =>
          /\ ctx.proc # "none"
          /\ inlog # <<>> /\ InitRequestsSent = {1}
    /\ (held = "ctx" /\ InitRead) =>
          /\ lastRead.took = 1 /\ lastRead.err = "none"
          /\ Decodable("*customAdapterInitResponse", lastRead.line)
    /\ (held = "nil" /\ startErr \in {"io", "no_match"}) =>
          /\ ContextAborted /\ ctx.proc # "none"
          /\ InitRead => lastRead.took <= 1
    /\ (held = "nil" /\ startErr = "start_failed") => ctx = NoCtx /\ inlog = <<>>

C13_Witness ==
    /\ held = "nil" /\ startErr = "no_match" /\ InitRead /\ lastRead.took = 1
    /\ ContextAborted /\ ctx.proc = "killed" /\ Len(inlog) = 1

TransferRequestsSent ==
    {i \in 1..Len(inlog) : inlog[i].type \in {"download", "upload"}}
TerminateRequestsSent == {i \in 1..Len(inlog) : inlog[i].type = "terminate"}

C14_Shape ==
    /\ InitRequestsSent \subseteq {1}
    /\ inlog # <<>> => InitRequestsSent = {1}
    /\ held = "ctx" => InitRequestsSent = {1}
    /\ Cardinality(TransferRequestsSent) <= nXfers
    /\ TransferRequestsSent # {} => held = "ctx"
    /\ pc \in {"new", "begun", "init_wait"} => Len(inlog) <= 1
    /\ TerminateRequestsSent \subseteq {Len(inlog)}
    /\ TerminateRequestsSent # {} => pc \in {"end_wait", "ended"}

C14_Write ==
    inlog' # inlog =>
        /\ \E m \in {InitRequest(direction, concurrent, originalConcurrency),
                     DownloadRequest(xf'), UploadRequest(xf'), TerminateRequest} :
               inlog' = Append(inlog, m)
        /\ TerminateRequestsSent = {}
        /\ inlog # <<>> => ctx.stdin
        /\ Last(inlog').type \in {"download", "upload"} => nXfers' = nXfers + 1

\* C14: the messages written to a worker's process are one InitRequest, then
\* at most one transfer request per DoTransfer call, then at most one
\* TerminateRequest; no transfer request precedes the end of the init
\* exchange, and nothing is written after the TerminateRequest or once the
\* write handle is closed.
C14_MessageSequence == []C14_Shape /\ [][C14_Write]_vars

C14_Witness ==
    /\ pc = "ended" /\ nXfers = 2 /\ Len(inlog) = 3
    /\ inlog[1].type = "init" /\ inlog[2].type \in {"download", "upload"}
    /\ inlog[3].type = "terminate"

PreconditionFails == call.arg \in {"nil", "wrong"} \/ ~call.rel

\* C15: a DoTransfer call with a nil context, a context of another type or
\* an object without the action of the adapter's direction returns an error;
\* it writes nothing, reads nothing, calls neither callback nor the
\* verification, and leaves the worker context as it was.
C15_PreconditionFailure ==
    [][(nXfers' # nXfers /\ PreconditionFails') =>
          /\ result' \in {"not_initialized", "wrong_type", "not_found"}
          /\ inlog' = inlog /\ outq' = outq
          /\ lastRead' = NoRead /\ consumed' = <<>>
          /\ cbLog' = <<>> /\ authCalls' = 0 /\ verifyCalls' = 0
          /\ ctx' = ctx /\ held' = held /\ pc' = pc]_vars

C15_Witness ==
    /\ call.arg = "ctx" /\ ~call.rel /\ result = "not_found"
    /\ held = "ctx" /\ WriteOK(ctx) /\ outq # <<>> /\ Len(inlog) = 1

\* C16: the concurrency Begin passes to the worker pool never exceeds the
\* requested count, and equals it for every requested count of 1 or less,
\* whatever the concurrent flag.
C16_NeverAboveRequested ==
    pc # "new" =>
        /\ poolConcurrency <= requested
        /\ requested <= 1 => poolConcurrency = requested

Operation == IF direction = "Download" THEN "download" ELSE "upload"

MatchesDirection(m) ==
    /\ m.type \in {"init", "terminate", Operation}
    /\ m.type = "init" => m.operation = Operation
    /\ m.type = Operation =>
          /\ m.oid \in ReqOids /\ m.size \in Sizes /\ m.action = Operation
          /\ direction = "Upload" => m.path = <<"objects", m.oid>>

\* C17: every message an adapter sends matches its direction: the
\* InitRequest names the adapter's operation, and each transfer request is
\* the DownloadRequest (oid, size, download action) of a Download adapter or
\* the UploadRequest (oid, size, object path, upload action) of an Upload
\* adapter, for the object of the running call.
C17_MessagesMatchDirection ==
    /\ \A i \in 1..Len(inlog) : MatchesDirection(inlog[i])
    /\ pc = "xfer" =>
          /\ Last(inlog).type = Operation
          /\ Last(inlog).oid = xf.oid /\ Last(inlog).size = xf.size

C17_Witness ==
    /\ direction = "Upload" /\ pc = "xfer" /\ Len(inlog) = 2
    /\ inlog[1] = InitRequest("Upload", concurrent, requested)
    /\ inlog[2].type = "upload" /\ inlog[2].path = <<"objects", xf.oid>>

\* C18: a DoTransfer call reads only lines the process wrote in reply to that
\* call's request: once an earlier DoTransfer on the context has returned,
\* the next one never reads a line left over from the earlier transfer.
C18_NoLeftoverLines ==
    JustRead => ~(lastRead.tag >= 2 /\ lastRead.tag < Len(inlog))

\* C19: the record DoTransfer examines is the candidate readResponse
\* reported: slot 0 for index 0, slot 1 for index 1, and taking it out of the
\* candidate list never faults.
C19_ExaminedIsReported ==
    (JustRead /\ lastRead.err = "none") =>
        /\ result # "panic"
        /\ lastRead.slot = lastRead.idx

C20_Carried ==
    /\ \A i \in InitRequestsSent :
          /\ inlog[i].concurrent = concurrent
          /\ inlog[i].concurrentTransfers = requested
    /\ pc = "new" => originalConcurrency = DefaultOriginalConcurrency /\ inlog = <<>>
    /\ pc # "new" => originalConcurrency = requested

\* C20: every InitRequest carries the adapter's concurrent flag and the count
\* the scheduler requested in Begin, also when the worker count in effect was
\* lowered to 1; only Begin writes the stored count, and it does so before any
\* worker has read it.
C20_InitCarriesRequested ==
    /\ []C20_Carried
    /\ [][originalConcurrency' # originalConcurrency =>
             pc = "new" /\ pc' = "begun" /\ inlog = <<>>]_vars

C20_Witness ==
    /\ ~concurrent /\ requested > 1 /\ poolConcurrency = 1
    /\ InitRequestsSent = {1} /\ inlog[1].concurrentTransfers = requested
    /\ ~inlog[1].concurrent

====
